---- MODULE Spec2Model ----
(***************************************************************************)
(* A model of SickGear's cyclic task scheduler (sickgear/scheduler.py),    *)
(* of the Action it drives (sickgear/subtitles.py, SubtitlesFinder) and of *)
(* the per-provider result cache (sickgear/tvcache.py).                    *)
(*                                                                         *)
(* Time is counted in whole units (hours for the scheduler, so that the    *)
(* hour-of-day arithmetic of the start-time window is exact).              *)
(***************************************************************************)
EXTENDS Integers, Sequences, FiniteSets, TLC

VARIABLES
    now,            \* the wall clock, datetime.datetime.now()
    \* ---- Scheduler object (scheduler.py)
    cycle_time,     \* self.cycle_time
    run_delay,      \* the run_delay constructor argument
    start_time,     \* self.start_time: NoStartTime, or an hour of the day
    last_run,       \* self.last_run
    force,          \* self.force
    unpause,        \* self._unpause (threading.Event)
    stopper,        \* self._stopper (threading.Event)
    silent,         \* self.silent
    pc,             \* where the worker thread is in Scheduler.run
    \* ---- the Action (subtitles.py, SubtitlesFinder)
    hasIsEnabled,   \* whether the Action has an is_enabled attribute
    enabled,        \* what is_enabled() returns (sickgear.USE_SUBTITLES)
    amActive,       \* self.action.amActive
    inMain,         \* whether the invocation in progress entered _main()
    running,        \* number of invocations of action.run() in progress
    outcome,        \* how the last invocation of action.run() ended
    \* ---- a thread calling force_run(), and other callers
    callerPc,       \* where the calling thread is in force_run
    frRet,          \* what the last completed force_run() call returned
    stopRequested,  \* stopit() has been called
    heldPaused,     \* constructed with paused=True and no unpause() call made yet
    natStart,       \* the pass times of the last two executions started without
                    \* the force flag, oldest first
    passInfo,       \* the pass in progress: its current_time, the outcome of the
                    \* test of line 96, self.force as read at line 108, and
                    \* whether lines 111-116 skipped the run
    \* ---- the cache database (cache.db) and one TVCache object (tvcache.py)
    update_iv,      \* self.update_iv
    rows,           \* table provider_cache, in rowid order
    lastUpdate,     \* table lastUpdate: time of this provider (0: no row)
    lastSearch,     \* table lastSearch: time of this provider (0: no row)
    \* ---- a thread in TVCache.update_cache
    upc,            \* where the thread is in update_cache
    data,           \* the local data: what _cache_data returned
    uret,           \* what the last update_cache call returned
    authOk,         \* whether check_auth() of this call passed
    fetched,        \* this call has called _cache_data
    purged,         \* this call has run clear_cache's DELETE
    deleted,        \* the rows that DELETE removed
    insertErr,      \* the error mass_action raised in this call, if any
    \* ---- a thread in TVCache.find_needed_episodes
    fpc,            \* where the thread is in find_needed_episodes
    ep_obj_list,    \* the requested episodes
    sql_result,     \* the local sql_result: the rows the queries returned
    needed_eps,     \* the local needed_eps, as (episode, result) pairs in order
    fStamps,        \* number of _set_last_search calls made by this call
    allRead,        \* every row of this provider in the table was there when
                    \* some find_needed_episodes call ran its queries
    \* ---- a thread in TVCache.list_propers
    ppc,            \* where the thread is in list_propers
    propersDate,    \* the argument date, as a timestamp
    propers         \* the rows the call returned

svars == <<cycle_time, run_delay, start_time, last_run, force, unpause, stopper,
           silent, pc, hasIsEnabled, enabled, amActive, inMain, running, outcome,
           callerPc, frRet, stopRequested, heldPaused, natStart, passInfo>>

cvars == <<update_iv, rows, lastUpdate, lastSearch, upc, data, uret, authOk,
           fetched, purged, deleted, insertErr, fpc, ep_obj_list, sql_result, needed_eps,
           fStamps, allRead, ppc, propersDate, propers>>

vars == <<now, svars, cvars>>

\* ---------------------------------------------------------------- bounds
MaxTime == 3
MaxCycle == 2
MaxDelay == 3
MaxIv == 2

\* no pass is in progress
NoPass ==
    [active |-> FALSE, time |-> 0, elapsed |-> FALSE, force |-> FALSE,
     prevented |-> FALSE]

\* start_time=None
NoStartTime == -1

\* date=None
NoDate == -1
HoursPerDay == 24

\* ----------------------------------------------------------------- clock
\* datetime.datetime.now() moves forward
Tick ==
    /\ now < MaxTime
    /\ now' = now + 1

\* ------------------------------------------------------------- Scheduler
\* Scheduler.__init__ with paused \in BOOLEAN, and a SubtitlesFinder-like Action
SchedInit ==
    /\ now = 0
    /\ cycle_time \in 1..MaxCycle
    /\ run_delay \in {0, MaxDelay}
    /\ start_time \in {NoStartTime, 1}
    /\ last_run = now + run_delay - cycle_time
    /\ force = FALSE
    /\ unpause \in BOOLEAN
    /\ stopper = FALSE
    /\ silent = TRUE
    /\ pc = "start"
    /\ hasIsEnabled \in BOOLEAN
    /\ enabled \in (IF hasIsEnabled THEN BOOLEAN ELSE {TRUE})
    /\ amActive = FALSE
    /\ inMain = FALSE
    /\ running = 0
    /\ outcome = "none"
    /\ callerPc = "idle"
    /\ frRet = "none"
    /\ stopRequested = FALSE
    /\ heldPaused = ~unpause
    /\ natStart = <<>>
    /\ passInfo = NoPass
    \* no cache is in use
    /\ update_iv = 1
    /\ rows = <<>>
    /\ lastUpdate = 0
    /\ lastSearch = 0
    /\ upc = "idle"
    /\ data = <<>>
    /\ uret = "none"
    /\ authOk = TRUE
    /\ fetched = FALSE
    /\ purged = FALSE
    /\ deleted = <<>>
    /\ insertErr = "none"
    /\ fpc = "idle"
    /\ ep_obj_list = <<>>
    /\ sql_result = <<>>
    /\ needed_eps = <<>>
    /\ fStamps = 0
    /\ allRead = TRUE
    /\ ppc = "idle"
    /\ propersDate = NoDate
    /\ propers = <<>>

\* Scheduler.pause
Pause ==
    /\ unpause' = FALSE
    /\ UNCHANGED cvars
    /\ UNCHANGED <<heldPaused, natStart, passInfo>>
    /\ UNCHANGED <<now, cycle_time, run_delay, start_time, last_run, force, stopper,
                   silent, pc, hasIsEnabled, enabled, amActive, inMain, running,
                   outcome, callerPc, frRet, stopRequested>>

\* Scheduler.unpause
Unpause ==
    /\ unpause' = TRUE
    /\ heldPaused' = FALSE
    /\ UNCHANGED cvars
    /\ UNCHANGED <<natStart, passInfo>>
    /\ UNCHANGED <<now, cycle_time, run_delay, start_time, last_run, force, stopper,
                   silent, pc, hasIsEnabled, enabled, amActive, inMain, running,
                   outcome, callerPc, frRet, stopRequested>>

\* Scheduler.stopit: self._stopper.set(); self.unpause()
Stopit ==
    /\ stopper' = TRUE
    /\ unpause' = TRUE
    /\ stopRequested' = TRUE
    /\ heldPaused' = FALSE
    /\ UNCHANGED cvars
    /\ UNCHANGED <<natStart, passInfo>>
    /\ UNCHANGED <<now, cycle_time, run_delay, start_time, last_run, force,
                   silent, pc, hasIsEnabled, enabled, amActive, inMain, running,
                   outcome, callerPc, frRet>>

\* mutant of ForceRunCheck: the amActive test is dropped
ForceRunCheckAlways ==
    /\ callerPc = "idle"
    /\ callerPc' = "fr_set" /\ frRet' = "none"
    /\ UNCHANGED cvars
    /\ UNCHANGED <<heldPaused, natStart, passInfo>>
    /\ UNCHANGED <<now, cycle_time, run_delay, start_time, last_run, force, unpause,
                   stopper, silent, pc, hasIsEnabled, enabled, amActive, inMain,
                   running, outcome, stopRequested>>

\* Scheduler.force_run, line 72: if not self.action.amActive
ForceRunCheck ==
    /\ callerPc = "idle"
    /\ IF ~amActive
       THEN callerPc' = "fr_set" /\ frRet' = "none"
       ELSE callerPc' = "fr_done" /\ frRet' = "false"
    /\ UNCHANGED cvars
    /\ UNCHANGED <<heldPaused, natStart, passInfo>>
    /\ UNCHANGED <<now, cycle_time, run_delay, start_time, last_run, force, unpause,
                   stopper, silent, pc, hasIsEnabled, enabled, amActive, inMain,
                   running, outcome, stopRequested>>

\* mutant of ForceRunSet: forcing a run by rolling last_run back one cycle
ForceRunSetRollsBack ==
    /\ callerPc = "fr_set"
    /\ force' = TRUE
    /\ last_run' = last_run - cycle_time
    /\ frRet' = "true"
    /\ callerPc' = "fr_done"
    /\ UNCHANGED cvars
    /\ UNCHANGED <<heldPaused, natStart, passInfo>>
    /\ UNCHANGED <<now, cycle_time, run_delay, start_time, unpause,
                   stopper, silent, pc, hasIsEnabled, enabled, amActive, inMain,
                   running, outcome, stopRequested>>

\* Scheduler.force_run, lines 73-74: self.force = True; return True
ForceRunSet ==
    /\ callerPc = "fr_set"
    /\ force' = TRUE
    /\ frRet' = "true"
    /\ callerPc' = "fr_done"
    /\ UNCHANGED cvars
    /\ UNCHANGED <<heldPaused, natStart, passInfo>>
    /\ UNCHANGED <<now, cycle_time, run_delay, start_time, last_run, unpause,
                   stopper, silent, pc, hasIsEnabled, enabled, amActive, inMain,
                   running, outcome, stopRequested>>

\* the caller takes force_run's return value and goes on
ForceRunReturn ==
    /\ callerPc = "fr_done"
    /\ callerPc' = "idle"
    /\ frRet' = "none"
    /\ UNCHANGED cvars
    /\ UNCHANGED <<heldPaused, natStart, passInfo>>
    /\ UNCHANGED <<now, cycle_time, run_delay, start_time, last_run, force, unpause,
                   stopper, silent, pc, hasIsEnabled, enabled, amActive, inMain,
                   running, outcome, stopRequested>>

\* ------------------------------------------------ Scheduler.run, the worker
\* Scheduler.set_paused_state, called first by run(); load_queue changes nothing here
SetPausedState ==
    /\ pc = "start"
    /\ IF hasIsEnabled
       THEN silent' = ~enabled /\ unpause' = enabled
       ELSE UNCHANGED <<silent, unpause>>
    /\ pc' = "wait"
    /\ UNCHANGED cvars
    /\ UNCHANGED <<heldPaused, natStart, passInfo>>
    /\ UNCHANGED <<now, cycle_time, run_delay, start_time, last_run, force, stopper,
                   hasIsEnabled, enabled, amActive, inMain, running, outcome,
                   callerPc, frRet, stopRequested>>

\* mutant of LoopWait: the loop does not wait for the _unpause event
LoopWaitIgnoresPause ==
    /\ pc = "wait"
    /\ pc' = "check_stop"
    /\ UNCHANGED cvars
    /\ UNCHANGED <<heldPaused, natStart, passInfo>>
    /\ UNCHANGED <<now, cycle_time, run_delay, start_time, last_run, force, unpause,
                   stopper, silent, hasIsEnabled, enabled, amActive, inMain, running,
                   outcome, callerPc, frRet, stopRequested>>

\* line 88: self._unpause.wait() blocks until the event is set
LoopWait ==
    /\ pc = "wait"
    /\ unpause
    /\ pc' = "check_stop"
    /\ UNCHANGED cvars
    /\ UNCHANGED <<heldPaused, natStart, passInfo>>
    /\ UNCHANGED <<now, cycle_time, run_delay, start_time, last_run, force, unpause,
                   stopper, silent, hasIsEnabled, enabled, amActive, inMain, running,
                   outcome, callerPc, frRet, stopRequested>>

\* line 88: ... and not self._stopper.is_set()
LoopCheckStop ==
    /\ pc = "check_stop"
    /\ pc' = IF stopper THEN "exiting" ELSE "pass"
    /\ UNCHANGED cvars
    /\ UNCHANGED <<heldPaused, natStart, passInfo>>
    /\ UNCHANGED <<now, cycle_time, run_delay, start_time, last_run, force, unpause,
                   stopper, silent, hasIsEnabled, enabled, amActive, inMain, running,
                   outcome, callerPc, frRet, stopRequested>>

\* line 90: getattr(self.action, 'is_enabled', True) is the bound method when the
\* Action has one and True when it has none: the value tested is truthy either way
IsEnabledAttr == TRUE

\* line 96: current_time - self.last_run >= self.cycle_time
IntervalPassed == now - last_run >= cycle_time

\* line 99: current_time.time().hour - self.start_time.hour
HourDiff == (now % HoursPerDay) - start_time

\* line 100: timedelta.seconds is the part of the duration below one day
CycleSecondsHours == cycle_time % HoursPerDay

\* line 100: not hour_diff < 0 and hour_diff < self.cycle_time.seconds // 3600
InStartWindow == ~(HourDiff < 0) /\ HourDiff < CycleSecondsHours

\* lines 93-109: should_run before the prevent check
WantsRun ==
    \/ IntervalPassed /\ (start_time = NoStartTime \/ InStartWindow)
    \/ force

\* lines 111-112 with should_run: the prevent_cycle_run() / prevent_run outcome
Prevented(prevent) == WantsRun /\ prevent

\* mutant of DecidedLastRun: line 104 is missing, a pass outside the start-time
\* window leaves self.last_run alone
DecidedLastRunKeepsOutsideWindow ==
    IF WantsRun THEN now ELSE last_run

\* lines 96-119: the value of self.last_run when the decision is made
DecidedLastRun ==
    IF WantsRun
    THEN now
    ELSE IF IntervalPassed /\ start_time # NoStartTime /\ ~InStartWindow
         THEN now
         ELSE last_run

\* t appended to the starts kept, of which the last two stay
LastStarts(starts, t) ==
    IF starts = <<>> THEN <<t>> ELSE <<starts[Len(starts)], t>>

\* mutant of Pass: line 119 is missing, self.last_run is not set when should_run
PassKeepsLastRunOnRun ==
    /\ pc = "pass"
    /\ IF IsEnabledAttr
       THEN \E prevent \in BOOLEAN:
               /\ last_run' = IF WantsRun /\ ~Prevented(prevent)
                              THEN last_run ELSE DecidedLastRun
               /\ pc' = IF WantsRun /\ ~Prevented(prevent) THEN "run" ELSE "finally"
               /\ passInfo' = [active |-> TRUE, time |-> now,
                               elapsed |-> IntervalPassed, force |-> force,
                               prevented |-> Prevented(prevent)]
               /\ natStart' = IF WantsRun /\ ~Prevented(prevent) /\ ~force
                              THEN LastStarts(natStart, now) ELSE natStart
       ELSE pc' = "sleep" /\ UNCHANGED <<last_run, passInfo, natStart>>
    /\ UNCHANGED cvars
    /\ UNCHANGED heldPaused
    /\ UNCHANGED <<now, cycle_time, run_delay, start_time, force, unpause,
                   stopper, silent, hasIsEnabled, enabled, amActive, inMain, running,
                   outcome, callerPc, frRet, stopRequested>>

\* lines 90-119: one pass's decision, up to the call of self.action.run()
Pass ==
    /\ pc = "pass"
    /\ IF IsEnabledAttr
       THEN \E prevent \in BOOLEAN:
               /\ last_run' = DecidedLastRun
               /\ pc' = IF WantsRun /\ ~Prevented(prevent) THEN "run" ELSE "finally"
               /\ passInfo' = [active |-> TRUE, time |-> now,
                               elapsed |-> IntervalPassed, force |-> force,
                               prevented |-> Prevented(prevent)]
               /\ natStart' = IF WantsRun /\ ~Prevented(prevent) /\ ~force
                              THEN LastStarts(natStart, now) ELSE natStart
       ELSE pc' = "sleep" /\ UNCHANGED <<last_run, passInfo, natStart>>
    /\ UNCHANGED cvars
    /\ UNCHANGED heldPaused
    /\ UNCHANGED <<now, cycle_time, run_delay, start_time, force, unpause,
                   stopper, silent, hasIsEnabled, enabled, amActive, inMain, running,
                   outcome, callerPc, frRet, stopRequested>>

\* mutant of ActionBegin: the Action is started in a thread of its own and the
\* loop does not wait for it
ActionBeginDetached ==
    /\ pc = "run"
    /\ pc' = "finally"
    /\ running' = running + 1
    /\ inMain' = enabled
    /\ amActive' = IF enabled THEN TRUE ELSE amActive
    /\ UNCHANGED cvars
    /\ UNCHANGED <<heldPaused, natStart, passInfo>>
    /\ UNCHANGED <<now, cycle_time, run_delay, start_time, last_run, force, unpause,
                   stopper, silent, hasIsEnabled, enabled, outcome, callerPc, frRet,
                   stopRequested>>

\* line 125 into subtitles.py lines 119-121: run() begins; amActive = True only
\* when is_enabled()
ActionBegin ==
    /\ pc = "run"
    /\ pc' = "executing"
    /\ running' = running + 1
    /\ inMain' = enabled
    /\ amActive' = IF enabled THEN TRUE ELSE amActive
    /\ UNCHANGED cvars
    /\ UNCHANGED <<heldPaused, natStart, passInfo>>
    /\ UNCHANGED <<now, cycle_time, run_delay, start_time, last_run, force, unpause,
                   stopper, silent, hasIsEnabled, enabled, outcome, callerPc, frRet,
                   stopRequested>>

\* subtitles.py lines 122-123: _main() returns, amActive = False, run() returns
ActionReturn ==
    /\ pc = "executing"
    /\ pc' = "finally"
    /\ running' = running - 1
    /\ inMain' = FALSE
    /\ amActive' = IF inMain THEN FALSE ELSE amActive
    /\ outcome' = "returned"
    /\ UNCHANGED cvars
    /\ UNCHANGED <<heldPaused, natStart, passInfo>>
    /\ UNCHANGED <<now, cycle_time, run_delay, start_time, last_run, force, unpause,
                   stopper, silent, hasIsEnabled, enabled, callerPc, frRet,
                   stopRequested>>

\* mutant of ActionRaise: the error is not caught and ends the worker thread
ActionRaisePropagates ==
    /\ pc = "executing"
    /\ inMain
    /\ pc' = "crashed"
    /\ running' = running - 1
    /\ inMain' = FALSE
    /\ outcome' = "raised"
    /\ force' = FALSE
    /\ UNCHANGED cvars
    /\ UNCHANGED <<heldPaused, natStart, passInfo>>
    /\ UNCHANGED <<now, cycle_time, run_delay, start_time, last_run, unpause,
                   stopper, silent, hasIsEnabled, enabled, amActive, callerPc, frRet,
                   stopRequested>>

\* subtitles.py line 122: _main() raises (its database and lookup calls are not
\* guarded), line 123 is skipped; scheduler.py lines 126-128 catch the error
ActionRaise ==
    /\ pc = "executing"
    /\ inMain
    /\ pc' = "finally"
    /\ running' = running - 1
    /\ inMain' = FALSE
    /\ outcome' = "raised"
    /\ UNCHANGED cvars
    /\ UNCHANGED <<heldPaused, natStart, passInfo>>
    /\ UNCHANGED <<now, cycle_time, run_delay, start_time, last_run, force, unpause,
                   stopper, silent, hasIsEnabled, enabled, amActive, callerPc, frRet,
                   stopRequested>>

\* mutant of Finally: the force flag is left set
FinallyKeepsForce ==
    /\ pc = "finally"
    /\ force' = force
    /\ pc' = "sleep"
    /\ passInfo' = NoPass
    /\ UNCHANGED cvars
    /\ UNCHANGED <<heldPaused, natStart>>
    /\ UNCHANGED <<now, cycle_time, run_delay, start_time, last_run, unpause,
                   stopper, silent, hasIsEnabled, enabled, amActive, inMain, running,
                   outcome, callerPc, frRet, stopRequested>>

\* lines 130-132: finally: if self.force: self.force = False
Finally ==
    /\ pc = "finally"
    /\ force' = FALSE
    /\ pc' = "sleep"
    /\ passInfo' = NoPass
    /\ UNCHANGED cvars
    /\ UNCHANGED <<heldPaused, natStart>>
    /\ UNCHANGED <<now, cycle_time, run_delay, start_time, last_run, unpause,
                   stopper, silent, hasIsEnabled, enabled, amActive, inMain, running,
                   outcome, callerPc, frRet, stopRequested>>

\* line 137: time.sleep(1), then back to the loop condition
Sleep ==
    /\ pc = "sleep"
    /\ pc' = "wait"
    /\ UNCHANGED cvars
    /\ UNCHANGED <<heldPaused, natStart, passInfo>>
    /\ UNCHANGED <<now, cycle_time, run_delay, start_time, last_run, force, unpause,
                   stopper, silent, hasIsEnabled, enabled, amActive, inMain, running,
                   outcome, callerPc, frRet, stopRequested>>

\* lines 139-141: exiting thread
LoopExit ==
    /\ pc = "exiting"
    /\ stopper' = FALSE
    /\ unpause' = FALSE
    /\ pc' = "exited"
    /\ UNCHANGED cvars
    /\ UNCHANGED <<heldPaused, natStart, passInfo>>
    /\ UNCHANGED <<now, cycle_time, run_delay, start_time, last_run, force,
                   silent, hasIsEnabled, enabled, amActive, inMain, running,
                   outcome, callerPc, frRet, stopRequested>>

\* the steps of the worker thread
Worker ==
    \/ SetPausedState
    \/ LoopWait
    \/ LoopCheckStop
    \/ Pass
    \/ ActionBegin
    \/ ActionReturn
    \/ ActionRaise
    \/ Finally
    \/ Sleep
    \/ LoopExit

\* calls made by other threads
Callers ==
    \/ Pause
    \/ Unpause
    \/ Stopit
    \/ ForceRunCheck
    \/ ForceRunSet
    \/ ForceRunReturn

SchedTick == Tick /\ UNCHANGED svars /\ UNCHANGED cvars

Next ==
    \/ Worker
    \/ Callers
    \/ SchedTick

Spec == SchedInit /\ [][Next]_vars

\* the worker thread is scheduled and the Action terminates
FairSpec == Spec /\ WF_vars(Worker)

\* schedulers constructed with a cycle_time of one day, or of one day and an hour
DayInit ==
    /\ now = 0
    /\ cycle_time \in {HoursPerDay, HoursPerDay + 1}
    /\ run_delay \in {0, MaxDelay}
    /\ start_time \in {NoStartTime, 1}
    /\ last_run = now + run_delay - cycle_time
    /\ force = FALSE
    /\ unpause \in BOOLEAN
    /\ stopper = FALSE
    /\ silent = TRUE
    /\ pc = "start"
    /\ hasIsEnabled \in BOOLEAN
    /\ enabled \in (IF hasIsEnabled THEN BOOLEAN ELSE {TRUE})
    /\ amActive = FALSE
    /\ inMain = FALSE
    /\ running = 0
    /\ outcome = "none"
    /\ callerPc = "idle"
    /\ frRet = "none"
    /\ stopRequested = FALSE
    /\ heldPaused = ~unpause
    /\ natStart = <<>>
    /\ passInfo = NoPass
    \* no cache is in use
    /\ update_iv = 1
    /\ rows = <<>>
    /\ lastUpdate = 0
    /\ lastSearch = 0
    /\ upc = "idle"
    /\ data = <<>>
    /\ uret = "none"
    /\ authOk = TRUE
    /\ fetched = FALSE
    /\ purged = FALSE
    /\ deleted = <<>>
    /\ insertErr = "none"
    /\ fpc = "idle"
    /\ ep_obj_list = <<>>
    /\ sql_result = <<>>
    /\ needed_eps = <<>>
    /\ fStamps = 0
    /\ allRead = TRUE
    /\ ppc = "idle"
    /\ propersDate = NoDate
    /\ propers = <<>>

DaySpec == DayInit /\ [][Next]_vars

\* ------------------------------------------------------------- TVCache
\* self.providerID, and the id of another provider writing to the same table
providerID == "prov"
otherID == "other"

\* parse_result.season_number is None
NoSeason == -1

\* ---- strings, as sequences of characters or of tokens
Digits == <<"0", "1", "2", "3", "4", "5", "6", "7", "8", "9">>

RECURSIVE Str(_)
\* str(n) of a natural number
Str(n) == IF n < 10 THEN <<Digits[n + 1]>> ELSE Str(n \div 10) \o <<Digits[(n % 10) + 1]>>

\* SQL: s LIKE '%p%'
Like(str, p) ==
    \E i \in 1..(Len(str) - Len(p) + 1): SubSeq(str, i, i + Len(p) - 1) = p

RECURSIVE ReplaceAll(_, _, _)
\* str.replace(a, b), token by token
ReplaceAll(str, a, b) ==
    IF str = <<>> THEN <<>>
    ELSE <<IF Head(str) = a THEN b ELSE Head(str)>> \o ReplaceAll(Tail(str), a, b)

\* TVCache._translate_title
TranslateTitle(title) == ReplaceAll(title, " ", ".")

\* TVCache._translate_link_url
TranslateLinkUrl(url) == ReplaceAll(url, "&amp;", "&")

RECURSIVE JoinEpisodes(_)
\* '|'.join(map(str, episode_numbers)) followed by the closing '|'
JoinEpisodes(eps) ==
    IF eps = <<>> THEN <<>>
    ELSE Str(Head(eps)) \o <<"|">> \o JoinEpisodes(Tail(eps))

\* line 300: '|%s|' % '|'.join(map(str, episode_numbers))
EpisodeText(eps) == IF eps = <<>> THEN <<"|", "|">> ELSE <<"|">> \o JoinEpisodes(eps)

\* ---- the feed: raw items the provider returns, and what NameParser makes of
\* their names
ItemSpaces == [title |-> <<"Show", " ", "S01E02", " ", "720p">>, url |-> <<"u1">>]
ItemDots == [title |-> <<"Show", ".", "S01E02", ".", "720p">>, url |-> <<"u2", "&amp;", "k">>]
ItemMulti == [title |-> <<"Show", ".", "S01E02E03", ".", "720p">>, url |-> <<"u3">>]
ItemGarbage == [title |-> <<"garbage">>, url |-> <<"u4">>]
ItemNoTitle == [title |-> <<>>, url |-> <<"u5">>]
ItemTwelve == [title |-> <<"Show", ".", "S01E12", ".", "720p">>, url |-> <<"u6">>]
ItemNoSeason == [title |-> <<"Show", ".", "E05", ".", "720p">>, url |-> <<"u7">>]
ItemNoEpisodes == [title |-> <<"Show", ".", "S01", ".", "720p">>, url |-> <<"u8">>]

\* what _cache_data may return
Feeds ==
    { <<>>,
      <<ItemSpaces, ItemDots>>,
      <<ItemMulti, ItemGarbage>>,
      <<ItemNoTitle>>,
      <<ItemTwelve>>,
      <<ItemNoSeason, ItemNoEpisodes>> }

ParsedEpisode(season, eps) ==
    [ok |-> TRUE, series_name |-> "Show", season_number |-> season,
     episode_numbers |-> eps, quality |-> 4, release_group |-> "", version |-> -1,
     tvid |-> 1, prodid |-> 10, is_anime |-> FALSE, post_ok |-> TRUE]

\* NameParser(...).parse(name): ok = FALSE stands for InvalidNameException or
\* InvalidShowException
Parse(name) ==
    CASE name = <<"Show", ".", "S01E02", ".", "720p">> -> ParsedEpisode(1, <<2>>)
      [] name = <<"Show", ".", "S01E02E03", ".", "720p">> -> ParsedEpisode(1, <<2, 3>>)
      [] name = <<"Show", ".", "S01E12", ".", "720p">> -> ParsedEpisode(1, <<12>>)
      [] name = <<"Show", ".", "E05", ".", "720p">> -> ParsedEpisode(NoSeason, <<5>>)
      [] name = <<"Show", ".", "S01", ".", "720p">> -> ParsedEpisode(1, <<>>)
      [] OTHER -> [ParsedEpisode(NoSeason, <<>>) EXCEPT !.ok = FALSE]

\* a row of provider_cache written by another provider
OtherRow ==
    [provider |-> otherID, name |-> <<"Show", ".", "S01E02", ".", "PROPER", ".", "720p">>,
     season |-> 1, episodes |-> EpisodeText(<<2>>), indexerid |-> 10, url |-> <<"o1">>,
     time |-> 0, quality |-> 4, release_group |-> "", version |-> -1, indexer |-> 1]

\* the cache tables a process may start with
InitTables == { <<>>, <<OtherRow>> }

\* ---- the database
\* _get_last_update, lines 164-180: a time in the future reads as 0
last_update == IF lastUpdate > now THEN 0 ELSE lastUpdate

\* _get_last_search, lines 182-198
last_search == IF lastSearch > now THEN 0 ELSE lastSearch

\* mutant of should_update: the refresh interval is not taken into account
should_update_any_time == now - last_update >= 0

\* should_update, line 238
should_update == now - last_update >= update_iv

\* mutant of should_clear_cache: the cache is cleared whether or not a search
\* has used the previous results
should_clear_cache_always == TRUE

\* should_clear_cache, line 247
should_clear_cache == last_search >= last_update

\* the unique key of provider_cache (the table is created outside these files)
LogicalKey(r) ==
    <<r.provider, r.name, r.season, r.episodes, r.quality, r.release_group,
      r.version, r.indexer, r.indexerid>>

\* the table's uniqueness constraint: a row with the key of r is there
Conflicts(tbl, r) == \E i \in 1..Len(tbl): LogicalKey(tbl[i]) = LogicalKey(r)

\* mutant of ExecInsert: a plain INSERT, which fails on a key that is present
ExecInsertPlain(st, r) ==
    IF st.err # "none" THEN st
    ELSE IF Conflicts(st.tbl, r) THEN [st EXCEPT !.err = "constraint"]
    ELSE [st EXCEPT !.tbl = Append(st.tbl, r)]

\* lines 316-326: INSERT OR IGNORE INTO provider_cache ... VALUES ...
ExecInsert(st, r) ==
    IF st.err # "none" THEN st
    ELSE IF Conflicts(st.tbl, r) THEN st
    ELSE [st EXCEPT !.tbl = Append(st.tbl, r)]

RECURSIVE ExecAll(_, _)
\* db.mass_action(cl): the statements in order, in one transaction
ExecAll(st, cl) ==
    IF cl = <<>> THEN st ELSE ExecAll(ExecInsert(st, Head(cl)), Tail(cl))

\* db.mass_action(cl) on table tbl: the new table and the error raised, a failed
\* transaction leaving the table as it was
MassAction(tbl, cl) ==
    LET st == ExecAll([tbl |-> tbl, err |-> "none"], cl)
    IN IF st.err = "none" THEN st ELSE [tbl |-> tbl, err |-> st.err]

RECURSIVE DeleteProvider(_, _)
\* line 67: DELETE FROM provider_cache WHERE provider = ?
DeleteProvider(tbl, prov) ==
    IF tbl = <<>> THEN <<>>
    ELSE IF Head(tbl).provider = prov THEN DeleteProvider(Tail(tbl), prov)
    ELSE <<Head(tbl)>> \o DeleteProvider(Tail(tbl), prov)

\* add_cache_entry(name, url), lines 249-326: the statements it returns, none
\* when it returns None
AddCacheEntry(name, url) ==
    LET parse_result == Parse(name)
        season_number == IF parse_result.season_number \notin {NoSeason, 0}
                         THEN parse_result.season_number ELSE 1
        episode_numbers == parse_result.episode_numbers
    IN IF ~parse_result.ok \/ parse_result.series_name = "" THEN <<>>
       ELSE IF parse_result.is_anime /\ ~parse_result.post_ok THEN <<>>
       ELSE IF season_number # 0 /\ episode_numbers # <<>>
       THEN << [provider |-> providerID, name |-> name, season |-> season_number,
                episodes |-> EpisodeText(episode_numbers),
                indexerid |-> parse_result.prodid, url |-> url, time |-> now,
                quality |-> parse_result.quality,
                release_group |-> parse_result.release_group,
                version |-> parse_result.version,
                indexer |-> parse_result.tvid] >>
       ELSE <<>>

\* parse_item(title, url), lines 146-162
ParseItem(title, url) ==
    IF title # <<>> /\ url # <<>>
    THEN AddCacheEntry(TranslateTitle(title), TranslateLinkUrl(url))
    ELSE <<>>

RECURSIVE ParseData(_)
\* update_cache lines 104-109: cl
ParseData(items) ==
    IF items = <<>> THEN <<>>
    ELSE ParseItem(Head(items).title, Head(items).url) \o ParseData(Tail(items))

\* ---- TVCache.update_cache, one thread
\* mutant of UpdateCheckAuth: the error is logged and the update goes on
UpdateCheckAuthGoesOn ==
    /\ upc = "idle"
    /\ \E ok \in BOOLEAN: authOk' = ok
    /\ upc' = "should_update"
    /\ uret' = "none"
    /\ UNCHANGED <<update_iv, rows, lastUpdate, lastSearch, data, fetched, purged,
                   insertErr, fpc, ep_obj_list, sql_result, needed_eps, fStamps>>
    /\ UNCHANGED <<deleted, allRead, ppc, propersDate, propers>>
    /\ UNCHANGED <<now, svars>>

\* lines 90-94: check_auth() passes (ok) or raises AuthException
UpdateCheckAuth ==
    /\ upc = "idle"
    /\ \E ok \in BOOLEAN:
          /\ authOk' = ok
          /\ IF ok
             THEN upc' = "should_update" /\ uret' = "none"
             ELSE upc' = "returned" /\ uret' = "[]"
    /\ UNCHANGED <<update_iv, rows, lastUpdate, lastSearch, data, fetched, purged,
                   insertErr, fpc, ep_obj_list, sql_result, needed_eps, fStamps>>
    /\ UNCHANGED <<deleted, allRead, ppc, propersDate, propers>>
    /\ UNCHANGED <<now, svars>>

\* line 96: if self.should_update(); when it does not hold the call returns None
UpdateShouldUpdate ==
    /\ upc = "should_update"
    /\ IF should_update
       THEN upc' = "fetch" /\ uret' = "none"
       ELSE upc' = "returned" /\ uret' = "None"
    /\ UNCHANGED <<update_iv, rows, lastUpdate, lastSearch, data, authOk, fetched,
                   purged, insertErr, fpc, ep_obj_list, sql_result, needed_eps,
                   fStamps>>
    /\ UNCHANGED <<deleted, allRead, ppc, propersDate, propers>>
    /\ UNCHANGED <<now, svars>>

\* line 97: data = self._cache_data(**kwargs)
UpdateFetch ==
    /\ upc = "fetch"
    /\ \E d \in Feeds: data' = d
    /\ fetched' = TRUE
    /\ upc' = "clear"
    /\ UNCHANGED <<update_iv, rows, lastUpdate, lastSearch, uret, authOk, purged,
                   insertErr, fpc, ep_obj_list, sql_result, needed_eps, fStamps>>
    /\ UNCHANGED <<deleted, allRead, ppc, propersDate, propers>>
    /\ UNCHANGED <<now, svars>>

\* lines 99-101 and clear_cache, lines 64-67
UpdateClear ==
    /\ upc = "clear"
    /\ IF data # <<>> /\ should_clear_cache
       THEN /\ rows' = DeleteProvider(rows, providerID)
            /\ purged' = TRUE
            /\ deleted' = SelectSeq(rows, LAMBDA r: r.provider = providerID)
            /\ allRead' = TRUE
       ELSE UNCHANGED <<rows, purged, deleted, allRead>>
    /\ upc' = "insert"
    /\ UNCHANGED <<update_iv, lastUpdate, lastSearch, data, uret, authOk, fetched,
                   insertErr, fpc, ep_obj_list, sql_result, needed_eps, fStamps>>
    /\ UNCHANGED <<ppc, propersDate, propers>>
    /\ UNCHANGED <<now, svars>>

\* mutant of UpdateInsert: a failing mass_action ends the call
UpdateInsertAbortsOnError ==
    /\ upc = "insert"
    /\ LET cl == ParseData(data)
       IN IF Len(cl) > 0
          THEN \E dbFails \in BOOLEAN:
                  IF dbFails
                  THEN /\ insertErr' = "database"
                       /\ upc' = "returned"
                       /\ UNCHANGED rows
                  ELSE /\ rows' = MassAction(rows, cl).tbl
                       /\ insertErr' = MassAction(rows, cl).err
                       /\ upc' = "stamp"
          ELSE upc' = "stamp" /\ UNCHANGED <<rows, insertErr>>
    /\ allRead' = IF rows' # rows THEN FALSE ELSE allRead
    /\ UNCHANGED <<update_iv, lastUpdate, lastSearch, data, uret, authOk, fetched,
                   purged, fpc, ep_obj_list, sql_result, needed_eps, fStamps>>
    /\ UNCHANGED <<deleted, ppc, propersDate, propers>>
    /\ UNCHANGED <<now, svars>>

\* lines 103-116: parse the items and mass_action(cl); the database may fail for
\* a reason of its own (dbFails), which is caught and logged
UpdateInsert ==
    /\ upc = "insert"
    /\ LET cl == ParseData(data)
       IN IF Len(cl) > 0
          THEN \E dbFails \in BOOLEAN:
                  IF dbFails
                  THEN insertErr' = "database" /\ UNCHANGED rows
                  ELSE /\ rows' = MassAction(rows, cl).tbl
                       /\ insertErr' = MassAction(rows, cl).err
          ELSE UNCHANGED <<rows, insertErr>>
    /\ upc' = "stamp"
    /\ allRead' = IF rows' # rows THEN FALSE ELSE allRead
    /\ UNCHANGED <<update_iv, lastUpdate, lastSearch, data, uret, authOk, fetched,
                   purged, fpc, ep_obj_list, sql_result, needed_eps, fStamps>>
    /\ UNCHANGED <<deleted, ppc, propersDate, propers>>
    /\ UNCHANGED <<now, svars>>

\* line 119 and set_last_update, lines 200-212; the call returns None
UpdateStamp ==
    /\ upc = "stamp"
    /\ lastUpdate' = now
    /\ upc' = "returned"
    /\ uret' = "None"
    /\ UNCHANGED <<update_iv, rows, lastSearch, data, authOk, fetched, purged,
                   insertErr, fpc, ep_obj_list, sql_result, needed_eps, fStamps>>
    /\ UNCHANGED <<deleted, allRead, ppc, propersDate, propers>>
    /\ UNCHANGED <<now, svars>>

\* the caller takes the result; the locals of the call are gone
UpdateDone ==
    /\ upc = "returned"
    /\ upc' = "idle"
    /\ data' = <<>>
    /\ uret' = "none"
    /\ authOk' = TRUE
    /\ fetched' = FALSE
    /\ purged' = FALSE
    /\ deleted' = <<>>
    /\ insertErr' = "none"
    /\ UNCHANGED <<update_iv, rows, lastUpdate, lastSearch, fpc, ep_obj_list,
                   sql_result, needed_eps, fStamps>>
    /\ UNCHANGED <<allRead, ppc, propersDate, propers>>
    /\ UNCHANGED <<now, svars>>

\* ---- TVCache.find_needed_episodes, one thread
\* an episode the caller may ask for: show (1, 10), season 1
Episode(n) == [tvid |-> 1, prodid |-> 10, season |-> 1, episode |-> n, wanted_quality |-> {4}]

\* the ep_obj_list arguments tried
EpisodeLists == { <<Episode(2)>>, <<Episode(3)>>, <<Episode(2), Episode(3)>> }

\* mutant of Selects: the LIKE pattern is '%N%', without the delimiters
SelectsUndelimited(ep_obj, r) ==
    /\ r.provider = providerID
    /\ r.indexer = ep_obj.tvid
    /\ r.indexerid = ep_obj.prodid
    /\ r.season = ep_obj.season
    /\ Like(r.episodes, Str(ep_obj.episode))
    /\ r.quality \in ep_obj.wanted_quality

\* lines 376-384: the WHERE clause of the query built for ep_obj
Selects(ep_obj, r) ==
    /\ r.provider = providerID
    /\ r.indexer = ep_obj.tvid
    /\ r.indexerid = ep_obj.prodid
    /\ r.season = ep_obj.season
    /\ Like(r.episodes, <<"|">> \o Str(ep_obj.episode) \o <<"|">>)
    /\ r.quality \in ep_obj.wanted_quality

RECURSIVE Select(_, _)
\* the rows of tbl one query returns, in rowid order
Select(ep_obj, tbl) ==
    IF tbl = <<>> THEN <<>>
    ELSE (IF Selects(ep_obj, Head(tbl)) THEN <<Head(tbl)>> ELSE <<>>)
         \o Select(ep_obj, Tail(tbl))

RECURSIVE SelectAll(_, _)
\* lines 385-387: mass_action(cl) and itertools.chain(*sql_result)
SelectAll(eps, tbl) ==
    IF eps = <<>> THEN <<>>
    ELSE Select(Head(eps), tbl) \o SelectAll(Tail(eps), tbl)

\* line 415: cur_result['episodes'].split('|')[1], for the texts EpisodeText makes:
\* the characters between the first and the second '|'
RECURSIVE UpToBar(_)
UpToBar(str) ==
    IF str = <<>> \/ Head(str) = "|" THEN <<>> ELSE <<Head(str)>> \o UpToBar(Tail(str))

RECURSIVE ToInt(_)
\* int(s) of a string of digits
ToInt(str) ==
    IF str = <<>> THEN 0
    ELSE 10 * ToInt(SubSeq(str, 1, Len(str) - 1))
         + (CHOOSE d \in 0..9: Digits[d + 1] = str[Len(str)])

FirstEpisode(r) == UpToBar(Tail(r.episodes))

RECURSIVE BuildResults(_, _, _)
\* lines 394-464: the loop over sql_result; accepted is the set of positions
\* whose row passes the show lookup, the word list, the anime and want_episode
\* checks and for which the provider builds a result. A result is filed under
\* show_obj.get_episode(season, first episode of the row)
BuildResults(res, i, accepted) ==
    IF i > Len(res) THEN <<>>
    ELSE (IF i \in accepted /\ res[i].season # -1 /\ FirstEpisode(res[i]) # <<>>
          THEN << [ep |-> [tvid |-> res[i].indexer, prodid |-> res[i].indexerid,
                           season |-> res[i].season,
                           episode |-> ToInt(FirstEpisode(res[i]))],
                   name |-> res[i].name, url |-> res[i].url] >>
          ELSE <<>>)
         \o BuildResults(res, i + 1, accepted)

\* lines 367-387: the call and its queries
FindSelect ==
    /\ fpc = "idle"
    /\ \E eps \in EpisodeLists:
          /\ ep_obj_list' = eps
          /\ sql_result' = SelectAll(eps, rows)
    /\ needed_eps' = <<>>
    /\ fStamps' = 0
    /\ fpc' = "stamp"
    /\ allRead' = TRUE
    /\ UNCHANGED <<update_iv, rows, lastUpdate, lastSearch, upc, data, uret, authOk,
                   fetched, purged, insertErr>>
    /\ UNCHANGED <<deleted, ppc, propersDate, propers>>
    /\ UNCHANGED <<now, svars>>

\* mutant of FindStamp: the path with no rows returns without the stamp
FindStampSkipsEmpty ==
    /\ fpc = "stamp"
    /\ IF sql_result = <<>>
       THEN UNCHANGED <<lastSearch, fStamps, needed_eps>>
       ELSE /\ \E accepted \in SUBSET (1..Len(sql_result)):
                  needed_eps' = BuildResults(sql_result, 1, accepted)
            /\ lastSearch' = now
            /\ fStamps' = fStamps + 1
    /\ fpc' = "returned"
    /\ UNCHANGED <<update_iv, rows, lastUpdate, upc, data, uret, authOk,
                   fetched, purged, insertErr, ep_obj_list, sql_result>>
    /\ UNCHANGED <<deleted, allRead, ppc, propersDate, propers>>
    /\ UNCHANGED <<now, svars>>

\* lines 389-391 (no rows) and 394-469 (the loop, then the stamp):
\* _set_last_search(), lines 214-226, and return needed_eps
FindStamp ==
    /\ fpc = "stamp"
    /\ IF sql_result = <<>>
       THEN UNCHANGED needed_eps
       ELSE \E accepted \in SUBSET (1..Len(sql_result)):
               needed_eps' = BuildResults(sql_result, 1, accepted)
    /\ lastSearch' = now
    /\ fStamps' = fStamps + 1
    /\ fpc' = "returned"
    /\ UNCHANGED <<update_iv, rows, lastUpdate, upc, data, uret, authOk,
                   fetched, purged, insertErr, ep_obj_list, sql_result>>
    /\ UNCHANGED <<deleted, allRead, ppc, propersDate, propers>>
    /\ UNCHANGED <<now, svars>>

\* the caller takes the result; the locals of the call are gone
FindDone ==
    /\ fpc = "returned"
    /\ fpc' = "idle"
    /\ ep_obj_list' = <<>>
    /\ sql_result' = <<>>
    /\ needed_eps' = <<>>
    /\ fStamps' = 0
    /\ UNCHANGED <<update_iv, rows, lastUpdate, lastSearch, upc, data, uret, authOk,
                   fetched, purged, insertErr>>
    /\ UNCHANGED <<deleted, allRead, ppc, propersDate, propers>>
    /\ UNCHANGED <<now, svars>>

CacheTick == Tick /\ UNCHANGED svars /\ UNCHANGED cvars

\* a TVCache on a database with nothing refreshed or searched yet; no scheduler
CacheInit ==
    /\ now = 0
    /\ update_iv \in 1..MaxIv
    /\ rows \in InitTables
    /\ lastUpdate = 0
    /\ lastSearch = 0
    /\ upc = "idle"
    /\ data = <<>>
    /\ uret = "none"
    /\ authOk = TRUE
    /\ fetched = FALSE
    /\ purged = FALSE
    /\ deleted = <<>>
    /\ insertErr = "none"
    /\ fpc = "idle"
    /\ ep_obj_list = <<>>
    /\ sql_result = <<>>
    /\ needed_eps = <<>>
    /\ fStamps = 0
    /\ allRead = TRUE
    /\ ppc = "idle"
    /\ propersDate = NoDate
    /\ propers = <<>>
    /\ cycle_time = 1
    /\ run_delay = 0
    /\ start_time = NoStartTime
    /\ last_run = 0
    /\ force = FALSE
    /\ unpause = TRUE
    /\ stopper = FALSE
    /\ silent = TRUE
    /\ pc = "start"
    /\ hasIsEnabled = FALSE
    /\ enabled = TRUE
    /\ amActive = FALSE
    /\ inMain = FALSE
    /\ running = 0
    /\ outcome = "none"
    /\ callerPc = "idle"
    /\ frRet = "none"
    /\ stopRequested = FALSE
    /\ heldPaused = FALSE
    /\ natStart = <<>>
    /\ passInfo = NoPass

CacheNext ==
    \/ UpdateCheckAuth
    \/ UpdateShouldUpdate
    \/ UpdateFetch
    \/ UpdateClear
    \/ UpdateInsert
    \/ UpdateStamp
    \/ UpdateDone
    \/ FindSelect
    \/ FindStamp
    \/ FindDone
    \/ CacheTick

CacheSpec == CacheInit /\ [][CacheNext]_vars

\* ---- TVCache.list_propers, one thread
\* rows with a marker in the name, stored at time 0
MarkedRow(prov, marker, prodid) ==
    [provider |-> prov, name |-> <<"Show", ".", "S01E02", ".", marker, ".", "720p">>,
     season |-> 1, episodes |-> EpisodeText(<<2>>), indexerid |-> prodid,
     url |-> <<"m", marker>>, time |-> 0, quality |-> 4, release_group |-> "",
     version |-> -1, indexer |-> 1]

\* the cache tables a list_propers call may find
PropersTables ==
    { <<OtherRow>>,
      <<MarkedRow(providerID, "PROPER", 10)>>,
      <<MarkedRow(providerID, "REAL", 10), MarkedRow(otherID, "REAL", 10)>>,
      <<MarkedRow(providerID, "REPACK", 0), MarkedRow(otherID, "REPACK", 10)>> }

\* the dates a caller may pass, None among them
Dates == {NoDate} \cup (1..MaxTime)

\* lines 352-356: the WHERE clause as SQL reads it, AND binding tighter than OR
ProperWhere(r, date) ==
    \/ Like(r.name, <<".", "PROPER", ".">>)
    \/ Like(r.name, <<".", "REPACK", ".">>)
    \/ /\ Like(r.name, <<".", "REAL", ".">>)
       /\ r.provider = providerID
       /\ (date # NoDate => r.time >= date)

\* list_propers(date), lines 343-358
list_propers(tbl, date) ==
    SelectSeq(SelectSeq(tbl, LAMBDA r: ProperWhere(r, date)),
              LAMBDA x: x.indexerid # 0)

\* the call and its result
ListPropersCall ==
    /\ ppc = "idle"
    /\ \E date \in Dates:
          /\ propersDate' = date
          /\ propers' = list_propers(rows, date)
    /\ ppc' = "returned"
    /\ UNCHANGED <<update_iv, rows, lastUpdate, lastSearch, upc, data, uret, authOk,
                   fetched, purged, deleted, insertErr, fpc, ep_obj_list, sql_result,
                   needed_eps, fStamps, allRead>>
    /\ UNCHANGED <<now, svars>>

\* the caller takes the result
ListPropersDone ==
    /\ ppc = "returned"
    /\ ppc' = "idle"
    /\ propersDate' = NoDate
    /\ propers' = <<>>
    /\ UNCHANGED <<update_iv, rows, lastUpdate, lastSearch, upc, data, uret, authOk,
                   fetched, purged, deleted, insertErr, fpc, ep_obj_list, sql_result,
                   needed_eps, fStamps, allRead>>
    /\ UNCHANGED <<now, svars>>

\* a TVCache on a table that holds propers of this and of another provider
PropersInit ==
    /\ now = 0
    /\ update_iv \in 1..MaxIv
    /\ rows \in PropersTables
    /\ lastUpdate = 0
    /\ lastSearch = 0
    /\ upc = "idle"
    /\ data = <<>>
    /\ uret = "none"
    /\ authOk = TRUE
    /\ fetched = FALSE
    /\ purged = FALSE
    /\ deleted = <<>>
    /\ insertErr = "none"
    /\ fpc = "idle"
    /\ ep_obj_list = <<>>
    /\ sql_result = <<>>
    /\ needed_eps = <<>>
    /\ fStamps = 0
    /\ allRead = TRUE
    /\ ppc = "idle"
    /\ propersDate = NoDate
    /\ propers = <<>>
    /\ cycle_time = 1
    /\ run_delay = 0
    /\ start_time = NoStartTime
    /\ last_run = 0
    /\ force = FALSE
    /\ unpause = TRUE
    /\ stopper = FALSE
    /\ silent = TRUE
    /\ pc = "start"
    /\ hasIsEnabled = FALSE
    /\ enabled = TRUE
    /\ amActive = FALSE
    /\ inMain = FALSE
    /\ running = 0
    /\ outcome = "none"
    /\ callerPc = "idle"
    /\ frRet = "none"
    /\ stopRequested = FALSE
    /\ heldPaused = FALSE
    /\ natStart = <<>>
    /\ passInfo = NoPass

PropersNext ==
    \/ UpdateCheckAuth
    \/ UpdateShouldUpdate
    \/ UpdateFetch
    \/ UpdateClear
    \/ UpdateInsert
    \/ UpdateStamp
    \/ UpdateDone
    \/ ListPropersCall
    \/ ListPropersDone
    \/ CacheTick

PropersSpec == PropersInit /\ [][PropersNext]_vars

\* ------------------------------------------------------ scheduler claims

\* C1: force_run() goes on to set the force flag only when amActive is false at
\* its test, and then returns true with the flag set; when amActive is true it
\* returns false and leaves force, last_run, the pause and the stop state alone.
\* Nothing else ever sets the force flag.
C1_ForceRunContract ==
    [][ /\ (callerPc = "idle" /\ callerPc' = "fr_set") => ~amActive
        /\ (callerPc = "idle" /\ callerPc' = "fr_done") =>
               /\ amActive
               /\ frRet' = "false"
               /\ UNCHANGED <<force, last_run, unpause, stopper, pc>>
        /\ (callerPc = "fr_set" /\ callerPc' = "fr_done") =>
               (frRet' = "true" /\ force')
        /\ (frRet # "true" /\ frRet' = "true") => callerPc = "fr_set"
        /\ (~force /\ force') => (callerPc = "fr_set" /\ callerPc' = "fr_done")
      ]_vars

\* C1 witness: a force_run() call has failed while the Action was active and the
\* force flag was not set
C1_Witness == callerPc = "fr_done" /\ frRet = "false" /\ amActive /\ ~force

\* C2: at most one invocation of the Action started by the loop is in progress,
\* and one is in progress exactly while the worker is inside its call
C2_SequentialExecution ==
    /\ running <= 1
    /\ (running = 1) <=> (pc = "executing")

\* C2 witness: an invocation is in progress after stopit() and with a force_run()
\* call half way
C2_Witness == running = 1 /\ stopRequested /\ callerPc = "fr_set" /\ ~unpause

\* C3: once stopit() has been called the worker loop eventually exits
C3_StopLeadsToExit == stopRequested ~> (pc = "exited")

\* C4: an error raised by the Action never ends the worker: the pass goes on to
\* its finally clause, which leaves the force flag false after a failed execution
\* as after a successful one, and from there to the next pass
C4_ActionErrorContained ==
    /\ [](pc # "crashed")
    /\ [][ /\ (pc = "executing" /\ pc' # "executing") =>
                  (pc' = "finally" /\ outcome' \in {"raised", "returned"})
           /\ (pc = "finally" /\ pc' # "finally") => (pc' = "sleep" /\ ~force')
           /\ (pc = "sleep" /\ pc' # "sleep") => pc' = "wait"
         ]_vars

\* C4 witness: the Action is executing again after an execution that raised, with
\* a forced run requested before
C4_Witness == pc = "executing" /\ outcome = "raised"

\* C9 as stated: last_run never decreases
C9_LastRunNeverDecreases == [][last_run' >= last_run]_vars

\* C9 amended: last_run changes only inside a pass of the tick loop, where it is
\* set to the pass's timestamp, and it does not decrease unless the value given
\* at construction, now + run_delay - cycle_time with run_delay > cycle_time,
\* still lies in the future of that pass
C9_LastRunInPassOnly ==
    [][ last_run' # last_run =>
            /\ pc = "pass"
            /\ pc' \in {"run", "finally"}
            /\ last_run' = now
            /\ (run_delay <= cycle_time => last_run' > last_run)
      ]_vars

\* C9 witness: a pass has set last_run to its timestamp, later than the
\* constructed value
C9_Witness ==
    /\ pc \in {"run", "finally"}
    /\ last_run = now
    /\ now > 0
    /\ run_delay <= cycle_time

\* ---------------------------------------------------------- cache claims
IsPrefix(a, b) == Len(a) <= Len(b) /\ SubSeq(b, 1, Len(a)) = a

\* the rows of tbl that provider prov wrote
OwnRows(tbl, prov) == {i \in 1..Len(tbl): tbl[i].provider = prov}

\* C5: when check_auth() fails, update_cache returns [] at once: the rows, the
\* lastUpdate and lastSearch times are as before and nothing was fetched or
\* deleted
C5_AuthFailureChangesNothing ==
    /\ [][ (upc = "idle" /\ upc' # "idle" /\ ~authOk') =>
               /\ upc' = "returned"
               /\ uret' = "[]"
               /\ UNCHANGED <<rows, lastUpdate, lastSearch, data, fetched, purged>>
         ]_vars
    /\ []((upc # "idle" /\ ~authOk) => (upc = "returned" /\ ~fetched /\ ~purged))

\* C5 witness: a call has failed authentication on a cache that holds rows of a
\* refresh made before
C5_Witness ==
    /\ upc = "returned" /\ ~authOk /\ uret = "[]"
    /\ OwnRows(rows, providerID) # {}
    /\ lastUpdate > 0

\* C6: rows disappear from the table only in update_cache's clear step, when the
\* fetch returned items and last_search >= last_update, and then exactly the rows
\* of this provider; a refresh whose clear step finds last_search < last_update
\* keeps every row, and its inserts only append
C6_PurgeOnlyWhenSearched ==
    [][ /\ ~IsPrefix(rows, rows') =>
               /\ upc = "clear"
               /\ data # <<>>
               /\ last_search >= last_update
               /\ rows' = DeleteProvider(rows, providerID)
               /\ purged'
        /\ (upc = "clear" /\ upc' # "clear" /\ last_search < last_update) =>
               (rows' = rows /\ ~purged')
      ]_vars

\* C6 witness: a refresh that found last_search < last_update has inserted a new
\* row beside a row of an earlier refresh
C6_Witness ==
    /\ upc = "stamp" /\ ~purged /\ data # <<>>
    /\ last_search < last_update
    /\ \E i, j \in OwnRows(rows, providerID): rows[i].time < rows[j].time /\ rows[j].time = now

C8_FindStampsOnce ==
    /\ [](fpc = "returned" => fStamps = 1)
    /\ [](fpc = "stamp" => fStamps = 0)
    /\ [][ (fStamps' # fStamps /\ fStamps' # 0) =>
               (fpc = "stamp" /\ fStamps' = fStamps + 1 /\ lastSearch' = now)
         ]_vars
    /\ [][ lastSearch' # lastSearch => (fpc = "stamp" /\ fpc' = "returned") ]_vars

\* C8 witness: a call whose queries returned rows, all of them discarded by the
\* filters, has returned with the stamp set
C8_Witness ==
    /\ fpc = "returned" /\ sql_result # <<>> /\ needed_eps = <<>>
    /\ lastSearch = now /\ now > 0

\* C10: when authentication passed and now - last_update < update_iv,
\* update_cache returns without fetching: rows, lastUpdate and lastSearch are as
\* before
C10_NoRefreshBeforeInterval ==
    /\ [][ (upc = "should_update" /\ upc' # "should_update"
            /\ now - last_update < update_iv) =>
               /\ upc' = "returned"
               /\ uret' = "None"
               /\ UNCHANGED <<rows, lastUpdate, lastSearch, data, fetched, purged>>
         ]_vars
    /\ []((upc = "returned" /\ authOk /\ ~fetched) => (uret = "None" /\ ~purged))

\* C10 witness: a call has returned without fetching, after an earlier refresh
\* that stored rows
C10_Witness ==
    /\ upc = "returned" /\ authOk /\ ~fetched
    /\ OwnRows(rows, providerID) # {}
    /\ lastUpdate > 0 /\ now - last_update < update_iv

\* ---------------------------------------------------------------------------
\* the key a result is filed under for the unit ep_obj
UnitKey(ep_obj) ==
    [tvid |-> ep_obj.tvid, prodid |-> ep_obj.prodid, season |-> ep_obj.season,
     episode |-> ep_obj.episode]

\* lines 338-341 of search_cache(episode): needed_eps[episode] of the results
\* a call for the one unit ep_obj returned; ok = FALSE stands for the KeyError
\* of a dict that is not empty and has no such key
search_cache(ep_obj, results) ==
    IF Len(results) = 0 THEN [ok |-> TRUE, found |-> <<>>]
    ELSE IF \E i \in 1..Len(results): results[i].ep = UnitKey(ep_obj)
         THEN [ok |-> TRUE,
               found |-> SelectSeq(results, LAMBDA x: x.ep = UnitKey(ep_obj))]
         ELSE [ok |-> FALSE, found |-> <<>>]

\* C11: every result find_needed_episodes returns is filed under a unit of the
\* call whose query selected the row the result was built from, never under
\* another episode, so that search_cache(unit) finds the key of its unit
C11_ResultKeyedByQueryingUnit ==
    fpc = "returned" =>
        /\ Len(ep_obj_list) = 1 => search_cache(ep_obj_list[1], needed_eps).ok
        /\ \A i \in 1..Len(needed_eps):
             \E j \in 1..Len(ep_obj_list), k \in 1..Len(sql_result):
                 /\ needed_eps[i].ep = UnitKey(ep_obj_list[j])
                 /\ sql_result[k].name = needed_eps[i].name
                 /\ sql_result[k].url = needed_eps[i].url
                 /\ Selects(ep_obj_list[j], sql_result[k])

\* the largest episode number the membership test is compared on
MaxEpisode == 13

RECURSIVE SplitBar(_)
\* the segments of str between its "|" characters
SplitBar(str) ==
    IF \A i \in 1..Len(str): str[i] # "|" THEN <<str>>
    ELSE <<UpToBar(str)>> \o SplitBar(SubSeq(str, Len(UpToBar(str)) + 2, Len(str)))

\* the set of episode numbers a stored episodes text stands for
EpisodeNumbers(text) ==
    LET segs == SplitBar(text)
    IN {ToInt(segs[i]): i \in {j \in 1..Len(segs): segs[j] # <<>>}}

\* the row r is one the unit ep_obj asks for, by set membership
Matches(ep_obj, r) ==
    /\ r.provider = providerID
    /\ r.indexer = ep_obj.tvid
    /\ r.indexerid = ep_obj.prodid
    /\ r.season = ep_obj.season
    /\ ep_obj.episode \in EpisodeNumbers(r.episodes)
    /\ r.quality \in ep_obj.wanted_quality

RECURSIVE MatchingRows(_, _)
MatchingRows(eps, tbl) ==
    IF eps = <<>> THEN <<>>
    ELSE SelectSeq(tbl, LAMBDA r: Matches(Head(eps), r)) \o MatchingRows(Tail(eps), tbl)

\* C12: the rows the queries of a call select are exactly the stored rows of
\* this provider with the unit's ids and season, whose episode set contains the
\* unit's episode and whose quality the unit accepts; on every row stored when
\* the queries run, the delimited-string test agrees with set membership for
\* every episode number
C12_QuerySelectsByMembership ==
    [][(fpc = "idle" /\ fpc' = "stamp")
          => /\ sql_result' = MatchingRows(ep_obj_list', rows)
             /\ \A i \in 1..Len(rows): \A n \in 0..MaxEpisode:
                   Selects(Episode(n), rows[i]) <=> Matches(Episode(n), rows[i])]_vars

\* a call for episode 2 finds the two-episode row and leaves the episode-12 row
C12_Witness ==
    /\ fpc = "stamp"
    /\ ep_obj_list = <<Episode(2)>>
    /\ \E i \in 1..Len(rows): rows[i].episodes = EpisodeText(<<12>>)
                              /\ rows[i].provider = providerID
    /\ \E i \in 1..Len(rows): rows[i].episodes = EpisodeText(<<2, 3>>)
    /\ Len(sql_result) = 1
    /\ sql_result[1].episodes = EpisodeText(<<2, 3>>)

\* C13: an update_cache() call that passed the authentication and the
\* should_update() gates returns only after setting the last-update stamp to
\* the current time
C13_RefreshAlwaysStamped ==
    [][(upc # "returned" /\ upc' = "returned" /\ fetched) => lastUpdate' = now]_vars

\* a call whose insert failed has stamped
C13_Witness ==
    /\ upc = "returned"
    /\ fetched
    /\ insertErr = "database"
    /\ lastUpdate = now
    /\ now > 0

\* ---------------------------------------------------------------------------
\* C14: a scheduler constructed with paused=True stays paused, and its Action
\* is not executed, until unpause() is called
C14_PausedUntilResume ==
    heldPaused => ~unpause /\ pc \notin {"pass", "run", "executing", "finally"}

\* the program points inside a pass of the loop
InPass == {"pass", "run", "executing", "finally"}

\* C15: the loop leaves its wait only when it sees the scheduler unpaused, a
\* pass begins only from there, the Action is invoked only inside such a pass,
\* and a pause() or unpause() made during a pass leaves the pass as it is
C15_PauseActsAtPassBoundary ==
    [][/\ (pc = "wait" /\ pc' # "wait") => unpause /\ pc' = "check_stop"
       /\ (pc # "pass" /\ pc' = "pass") => pc = "check_stop"
       /\ (pc # "check_stop" /\ pc' = "check_stop") => pc = "wait"
       /\ (pc # "run" /\ pc' = "run") => pc = "pass"
       /\ running' > running => pc = "run"
       /\ (unpause' # unpause /\ pc \in InPass)
             => /\ pc' = pc
                /\ running' = running
                /\ inMain' = inMain
                /\ outcome' = outcome
                /\ last_run' = last_run
                /\ passInfo' = passInfo]_vars

\* pause() was called while the Action runs, and it still runs
C15_Witness ==
    /\ pc = "executing"
    /\ ~unpause
    /\ ~stopRequested
    /\ running = 1

\* C16: a pass that finds the interval elapsed, with the Action enabled, sets
\* last_run to the pass's timestamp, whether it goes on to run the Action or
\* skips the run, and last_run stays so to the end of the pass
C16_ElapsedPassStampsLastRun ==
    /\ [][(pc = "pass" /\ pc' # "pass" /\ (hasIsEnabled => enabled)
             /\ now - last_run >= cycle_time) => last_run' = now]_vars
    /\ []((pc \in InPass /\ passInfo.active /\ passInfo.elapsed
             /\ (hasIsEnabled => enabled)) => last_run = passInfo.time)

\* a pass outside the start-time window, not forced, has stamped last_run
C16_Witness ==
    /\ pc = "finally"
    /\ passInfo.active /\ passInfo.elapsed /\ ~passInfo.force /\ ~passInfo.prevented
    /\ passInfo.time = now
    /\ start_time # NoStartTime /\ HourDiff < 0
    /\ outcome = "none"
    /\ last_run = now

\* C17: last_run is the pass's timestamp when the Action is invoked, and two
\* consecutive executions started without the force flag start at least
\* cycle_time apart
C17_NaturalStartsOneCycleApart ==
    /\ pc \in {"run", "executing"} => last_run = passInfo.time
    /\ Len(natStart) = 2 => natStart[2] - natStart[1] >= cycle_time

\* the second of two such executions, after one that raised and the time of
\* more than a cycle
C17_Witness ==
    /\ pc = "executing"
    /\ Len(natStart) = 2
    /\ natStart[2] = now
    /\ natStart[2] - natStart[1] > cycle_time
    /\ outcome = "raised"
    /\ ~passInfo.force

\* C18: with a start_time, the interval elapsed, no force flag and no
\* prevention, the pass runs the Action exactly when
\* 0 <= hour_diff < cycle_time in whole hours
C18_WindowInWholeHours ==
    [][(pc = "pass" /\ pc' # "pass" /\ start_time # NoStartTime
          /\ now - last_run >= cycle_time /\ ~force /\ ~passInfo'.prevented)
         => (pc' = "run" <=> (0 <= HourDiff /\ HourDiff < cycle_time))]_vars

\* C19: a pass that reads the force flag set runs the Action unless the run is
\* prevented, whatever the interval and the hour; the flag is false when the
\* pass ends
C19_ForceRunsOnce ==
    [][/\ (pc = "pass" /\ pc' # "pass" /\ force)
             => (pc' = "run" \/ passInfo'.prevented) /\ passInfo'.force
       /\ (pc = "finally" /\ pc' # "finally") => ~force'
       /\ (pc = "sleep" /\ pc' # "sleep") => (force' = force)]_vars

\* a forced execution in a pass whose interval had not elapsed
C19_Witness ==
    /\ pc = "executing"
    /\ passInfo.force
    /\ ~passInfo.elapsed

\* C20: a pass made while the Action's is_enabled() yields false leaves
\* last_run alone and does not invoke the Action
C20_DisabledPassDoesNothing ==
    [][(pc = "pass" /\ hasIsEnabled /\ ~enabled)
          => (last_run' = last_run /\ pc' \notin {"run", "executing"})]_vars

\* ---------------------------------------------------------------------------
\* C21: every row this provider has stored comes from a title whose parse gave
\* a season number and a list of episodes that is not empty
C21_RowsHaveSeasonAndEpisodes ==
    \A i \in OwnRows(rows, providerID):
        /\ Parse(rows[i].name).ok
        /\ Parse(rows[i].name).season_number # NoSeason
        /\ Parse(rows[i].name).episode_numbers # <<>>

\* C22: update_cache deletes the rows of its provider only when each of them
\* was in the table when some find_needed_episodes call ran its queries
C22_PurgeOnlyReadRows ==
    [][(upc = "clear" /\ ~purged /\ purged' /\ OwnRows(rows, providerID) # {})
          => allRead]_vars

\* C23: a find_needed_episodes call that runs its queries while update_cache is
\* between its DELETE and its INSERTs, and whose units match rows both of the
\* old and of the new content, gets rows
C23_PurgeInsertAtomic ==
    [][(fpc = "idle" /\ fpc' = "stamp" /\ upc = "insert" /\ purged
          /\ MatchingRows(ep_obj_list', deleted) # <<>>
          /\ MatchingRows(ep_obj_list', MassAction(rows, ParseData(data)).tbl) # <<>>)
         => sql_result' # <<>>]_vars

\* C24: the force flag goes from set to clear only at the end of a pass that
\* read it set at line 108
C24_ForceClearedOnlyWhenEvaluated ==
    [][(force /\ ~force') => (passInfo.active /\ passInfo.force)]_vars

\* C25: amActive of a SubtitlesFinder is true only while the scheduler is
\* inside its run()
C25_ActiveOnlyWhileRunning ==
    (hasIsEnabled /\ amActive) => (pc = "executing" /\ inMain)

\* C26: list_propers returns only rows of its own provider and, when a date
\* is given, only rows fetched at or after that date
C26_PropersOfOwnProvider ==
    ppc = "returned" =>
        \A i \in 1..Len(propers):
            /\ propers[i].provider = providerID
            /\ propersDate # NoDate => propers[i].time >= propersDate

====
